---- MODULE Spec2Model ----
(***************************************************************************)
(* A model of lib/storage/s3.ts: the short-link store StorageS3, its       *)
(* DynamoDB links table and its S3 bucket.                                  *)
(*                                                                         *)
(* Strings are sequences: a hash is a sequence of characters (0 and 1,     *)
(* compared as JavaScript compares strings, lexicographically), an IP      *)
(* string a sequence of tokens (addresses and ",").                        *)
(*                                                                         *)
(* Every await of the source is a point where other callers may run. The   *)
(* requests to DynamoDB and to S3 are atomic at the backing store, so an   *)
(* action is one request landing, together with the synchronous code that  *)
(* runs on its response.  Reads (query, getItem, s3.get) are modelled as   *)
(* answering; the writes (putItem, s3.put, updateItem), whose errors the   *)
(* source handles, may fail.                                                *)
(***************************************************************************)
EXTENDS Integers, Sequences, FiniteSets, TLC

PREFIX_LENGTH == 6

MIN_STORED_ID_LENGTH == 9

\* Length of the hashes the hasher produces.
HashLen == 12

\* Number of operations that may be in flight at once: the concurrent callers.
MaxInFlight == 2

\* Number of operations called in a behaviour.
MaxOps == 2

\* The calls of a behaviour, numbered in the order in which they are made.
\* Call 0 is the one in flight when a behaviour of SpecInFlight begins.
Calls == 0..MaxOps

Min(a, b) == IF a < b THEN a ELSE b

(***************************************************************************)
(* Strings                                                                 *)
(***************************************************************************)

\* String.prototype.substring(start, end) for 0 <= start <= end: end is
\* clamped to the length of the string.
Substring(s, start, end) == SubSeq(s, start + 1, Min(end, Len(s)))

\* a < b on JavaScript strings: lexicographic, a proper prefix is smaller.
RECURSIVE StrLess(_, _)
StrLess(a, b) ==
    IF b = <<>> THEN FALSE
    ELSE IF a = <<>> THEN TRUE
    ELSE IF Head(a) # Head(b) THEN Head(a) < Head(b)
    ELSE StrLess(Tail(a), Tail(b))

\* The hash with every character 0, and the one with a single 1 at position j.
ZeroHash == [k \in 1..HashLen |-> 0]

OneAt(j) == [k \in 1..HashLen |-> IF k = j THEN 1 ELSE 0]

\* The hashes callers store: one in another partition; in the partition of
\* ZeroHash, one that differs from it within MIN_STORED_ID_LENGTH characters
\* and two that differ from it, and from each other, only in the last two.
Hashes ==
    {ZeroHash, OneAt(PREFIX_LENGTH), OneAt(MIN_STORED_ID_LENGTH),
     OneAt(HashLen - 1), OneAt(HashLen)}

\* The config whose hash is h (the hasher is taken to be collision-free).
ConfigOf(h) == <<"config", h>>

\* The ids callers expand and count views of.
Ids == {Substring(h, 0, k) : h \in Hashes, k \in MIN_STORED_ID_LENGTH..(HashLen - 2)}

(***************************************************************************)
(* The DynamoDB links table and the S3 bucket                              *)
(***************************************************************************)

VARIABLES
    table,      \* the links table: a set of items, at most one per key
    bucket,     \* the S3 bucket under this.prefix: the set of stored objects
    pc,         \* per call: "storing" or "expanding" while it is in flight,
                \* "idle" before and after
    item,       \* per call, while it is storing: the StoredObject and the
                \* provenance of its storeItem
    metaPut,    \* per call, while it is storing: its putItem, "pending",
                \* "ok" or "failed" ("none" otherwise)
    blobPut,    \* per call, while it is storing: its s3.put, likewise
    promise,    \* per call, while it is storing: the promise of storeItem,
                \* "pending", "resolved" or the error it rejected with
    attributes, \* per call, while it is expanding: item.Item as read
    result,     \* how the operation that settled last settled for its caller
    returned,   \* history: the <<full hash, short id>> pairs stores returned
    nops        \* the number of calls made so far

vars ==
    <<table, bucket, pc, item, metaPut, blobPut, promise, attributes,
      result, returned, nops>>

\* The Key of an item of the table.
KeyOf(it) == [prefix |-> it.prefix, unique_subhash |-> it.unique_subhash]

getKeyStructOfMinLength(id) ==
    [prefix |-> Substring(id, 0, MIN_STORED_ID_LENGTH), unique_subhash |-> id]

getKeyStruct(id) ==
    [prefix |-> Substring(id, 0, PREFIX_LENGTH), unique_subhash |-> id]

\* DynamoDB getItem: the set of items under the key (empty or a singleton).
GetItem(tbl, key) == {it \in tbl : KeyOf(it) = key}

\* DynamoDB putItem without a condition: the item replaces the one under
\* its key, if any.
PutItemAlways(tbl, it) == {o \in tbl : KeyOf(o) # KeyOf(it)} \cup {it}

PutItemIfAbsent(tbl, it) == IF GetItem(tbl, KeyOf(it)) = {} THEN tbl \cup {it} ELSE tbl

PutItem(tbl, it) == PutItemAlways(tbl, it)

\* DynamoDB query on the partition key: the items of the partition in the
\* order of their sort key unique_subhash.
RECURSIVE SortItems(_)
SortItems(S) ==
    IF S = {} THEN <<>>
    ELSE LET first == CHOOSE x \in S :
                        \A y \in S \ {x} : StrLess(x.unique_subhash, y.unique_subhash)
         IN  <<first>> \o SortItems(S \ {first})

Query(tbl, prefix) == SortItems({it \in tbl : it.prefix = prefix})

\* S3Bucket.put and S3Bucket.get under one namespace.
S3Put(bkt, key, data) == {o \in bkt : o.key # key} \cup {[key |-> key, data |-> data]}

S3Get(bkt, key) ==
    IF \E o \in bkt : o.key = key
    THEN [hit |-> TRUE, data |-> (CHOOSE o \in bkt : o.key = key).data]
    ELSE [hit |-> FALSE, data |-> <<>>]

(***************************************************************************)
(* findUniqueSubhash                                                       *)
(***************************************************************************)

\* underscore's sortedIndex: binary search, 0-based.
RECURSIVE SortedIndexLoop(_, _, _, _)
SortedIndexLoop(array, value, low, high) ==
    IF low < high
    THEN LET mid == (low + high) \div 2
         IN  IF StrLess(array[mid + 1], value)
             THEN SortedIndexLoop(array, value, mid + 1, high)
             ELSE SortedIndexLoop(array, value, low, mid)
    ELSE low

\* _.indexOf(array, item, true): the index found by binary search, or -1.
IndexOfSorted(array, value) ==
    LET idx == SortedIndexLoop(array, value, 0, Len(array))
    IN  IF idx < Len(array) /\ array[idx + 1] = value THEN idx ELSE -1

Thrown == [thrown |-> TRUE]

\* The last candidate length the loop of findUniqueSubhash tries, plus one.
LoopEndStrict(hash) == Len(hash) - 1

LoopEndWhole(hash) == Len(hash) + 1

LoopEnd(hash) == LoopEndStrict(hash)

RECURSIVE FindLoop(_, _, _, _)
FindLoop(hash, subHashes, fullHashes, i) ==
    IF i < LoopEnd(hash)
    THEN LET subHash == Substring(hash, 0, i)
             index == IndexOfSorted(subHashes, subHash)
         IN  IF index = -1
             THEN [thrown |-> FALSE,
                   prefix |-> Substring(hash, 0, PREFIX_LENGTH),
                   uniqueSubHash |-> subHash,
                   alreadyPresent |-> FALSE]
             ELSE IF fullHashes[index + 1] = hash
             THEN [thrown |-> FALSE,
                   prefix |-> Substring(hash, 0, PREFIX_LENGTH),
                   uniqueSubHash |-> subHash,
                   alreadyPresent |-> TRUE]
             ELSE FindLoop(hash, subHashes, fullHashes, i + 1)
    ELSE Thrown

\* findUniqueSubhash(hash) on the answer of the query, data.Items.
FindUniqueSubhashTrusting(hash, items) ==
    LET subHashes == [k \in 1..Len(items) |-> items[k].unique_subhash]
        fullHashes == [k \in 1..Len(items) |-> hash]
    IN  FindLoop(hash, subHashes, fullHashes, MIN_STORED_ID_LENGTH)

FindUniqueSubhashFromLonger(hash, items) ==
    LET subHashes == [k \in 1..Len(items) |-> items[k].unique_subhash]
        fullHashes == [k \in 1..Len(items) |-> items[k].full_hash]
    IN  FindLoop(hash, subHashes, fullHashes, MIN_STORED_ID_LENGTH + 1)

FindUniqueSubhashOn(hash, items) ==
    LET subHashes == [k \in 1..Len(items) |-> items[k].unique_subhash]
        fullHashes == [k \in 1..Len(items) |-> items[k].full_hash]
    IN  FindLoop(hash, subHashes, fullHashes, MIN_STORED_ID_LENGTH)

\* findUniqueSubhash(hash) when its query is answered from the table tbl.
findUniqueSubhash(tbl, hash) ==
    FindUniqueSubhashOn(hash, Query(tbl, Substring(hash, 0, PREFIX_LENGTH)))

(***************************************************************************)
(* storeItem                                                               *)
(***************************************************************************)

\* utils.anonymizeIp on an address.
anonymizeIp(addr) == <<"anon">> \o addr

\* String.prototype.indexOf(ch): the first 0-based index of ch, or -1.
IndexOf(s, ch) ==
    IF \E k \in 1..Len(s) : s[k] = ch
    THEN (CHOOSE k \in 1..Len(s) : s[k] = ch /\ \A j \in 1..(k - 1) : s[j] # ch) - 1
    ELSE -1

\* The address of the client of call c.
ClientOf(c) == <<"client", ToString(c)>>

\* The request of call c: its X-Forwarded-For header (absent when empty)
\* and its ip. The calls come in turn directly, through a proxy that sets
\* the header to the address of the client alone, and through a chain of
\* proxies that sets it to a comma-separated list.
RequestOf(c) ==
    IF c % 3 = 1
    THEN [xff |-> <<>>, ip |-> ClientOf(c)]
    ELSE IF c % 3 = 2
    THEN [xff |-> ClientOf(c), ip |-> <<"proxy">>]
    ELSE [xff |-> ClientOf(c) \o <<",", "proxy">>, ip |-> <<"proxy">>]

\* The time of call c: its minute and second.
TimeOf(c) == [minute |-> c, second |-> 30]

\* creation_ip as storeItem computes it from the request.
CreationIp(req) ==
    LET ip == IF req.xff # <<>> THEN req.xff ELSE anonymizeIp(req.ip)
        commaIndex == IndexOf(ip, ",")
    IN  IF commaIndex > 0
        THEN anonymizeIp(Substring(ip, 0, commaIndex)) \o Substring(ip, commaIndex, Len(ip))
        ELSE ip

\* creation_date: now with its seconds and milliseconds set to 0.
CreationDate(now) == [minute |-> now.minute, second |-> 0]

\* The Item storeItem puts into the table.
ItemOf(it) ==
    [prefix |-> it.prefix,
     unique_subhash |-> it.uniqueSubHash,
     full_hash |-> it.fullHash,
     clicks |-> 0,
     creation_ip |-> it.ip,
     creation_date |-> it.date]

NoItem == [prefix |-> <<>>]

\* How an operation settled for its caller: with status "ok" and the id or
\* the link returned, or with status "error" and the error thrown. An
\* operation that swallows an error settles "ok" with the error it logged.
NoLink == [config |-> <<>>, created |-> [minute |-> 0, second |-> 0]]

NoResult == [op |-> "none", status |-> "none", error |-> "none", id |-> <<>>, link |-> NoLink]

Returned(op, id, link) ==
    [op |-> op, status |-> "ok", error |-> "none", id |-> id, link |-> link]

Threw(op, error) ==
    [op |-> op, status |-> "error", error |-> error, id |-> <<>>, link |-> NoLink]

ResolutionExhausted == "Could not find unique subhash"

\* The caller of findUniqueSubhash and storeItem: an id that is already
\* present is returned without a call of storeItem.
ShouldStoreAlways(r) == TRUE

ShouldStore(r) == ~r.alreadyPresent

\* The promise of storeItem once one of its two writes has settled:
\* Promise.all rejects with the first error, which storeItem rethrows, and
\* resolves when both writes have succeeded. p is the promise before, m and
\* b the two writes, err the error of the write that settled now ("none"
\* when it succeeded).
StoreItemSwallow(p, m, b, err) ==
    IF p # "pending" THEN p
    ELSE IF m # "pending" /\ b # "pending" THEN "resolved"
    ELSE p

StoreItemSettle(p, m, b, err) ==
    IF p # "pending" THEN p
    ELSE IF err # "none" THEN err
    ELSE IF m = "ok" /\ b = "ok" THEN "resolved"
    ELSE p

\* storeItem as its caller sees it settle.
StoreItemResultReturning(p, it) == Returned("storeItem", it.uniqueSubHash, NoLink)

StoreItemResult(p, it) ==
    IF p = "resolved"
    THEN Returned("storeItem", it.uniqueSubHash, NoLink)
    ELSE Threw("storeItem", p)

\* Call c is made now: it is the next call, and a caller is free.
Called(c) ==
    /\ c = nops + 1
    /\ Cardinality({d \in Calls : pc[d] # "idle"}) < MaxInFlight
    /\ nops' = c

\* A store: findUniqueSubhash(h), whose query is answered now, and then
\* storeItem, which issues its two writes.
StoreBegin(c, h) ==
    /\ Called(c)
    /\ LET r == findUniqueSubhash(table, h)
       IN  IF r.thrown
           THEN /\ result' = Threw("findUniqueSubhash", ResolutionExhausted)
                /\ UNCHANGED <<pc, item, metaPut, blobPut, promise, returned>>
           ELSE IF ~ShouldStore(r)
           THEN /\ result' = Returned("findUniqueSubhash", r.uniqueSubHash, NoLink)
                /\ returned' = returned \cup {<<h, r.uniqueSubHash>>}
                /\ UNCHANGED <<pc, item, metaPut, blobPut, promise>>
           ELSE /\ pc' = [pc EXCEPT ![c] = "storing"]
                /\ item' = [item EXCEPT ![c] =
                        [prefix |-> r.prefix,
                         uniqueSubHash |-> r.uniqueSubHash,
                         fullHash |-> h,
                         config |-> ConfigOf(h),
                         ip |-> CreationIp(RequestOf(c)),
                         date |-> CreationDate(TimeOf(c))]]
                /\ metaPut' = [metaPut EXCEPT ![c] = "pending"]
                /\ blobPut' = [blobPut EXCEPT ![c] = "pending"]
                /\ promise' = [promise EXCEPT ![c] = "pending"]
                /\ UNCHANGED <<returned, result>>
    /\ UNCHANGED <<table, bucket, attributes>>

\* What a settled write of storeItem leaves of the call, m and b being the
\* two writes now: its promise, which the caller sees settle once, the id
\* given to the caller when it resolves, and what is still in flight.
StoreAfterWrite(c, m, b, err) ==
    LET p == StoreItemSettle(promise[c], m, b, err)
        settles == promise[c] = "pending" /\ p # "pending"
        done == m # "pending" /\ b # "pending"
    IN  /\ result' = IF settles THEN StoreItemResult(p, item[c]) ELSE result
        /\ returned' = IF settles /\ p = "resolved"
                       THEN returned \cup {<<item[c].fullHash, item[c].uniqueSubHash>>}
                       ELSE returned
        /\ pc' = [pc EXCEPT ![c] = IF done THEN "idle" ELSE "storing"]
        /\ item' = [item EXCEPT ![c] = IF done THEN NoItem ELSE item[c]]
        /\ promise' = [promise EXCEPT ![c] = IF done THEN "none" ELSE p]
        /\ metaPut' = [metaPut EXCEPT ![c] = IF done THEN "none" ELSE m]
        /\ blobPut' = [blobPut EXCEPT ![c] = IF done THEN "none" ELSE b]
        /\ UNCHANGED <<attributes, nops>>

\* dynamoDb.putItem lands.
DynamoPutItemOk(c) ==
    /\ pc[c] = "storing"
    /\ metaPut[c] = "pending"
    /\ table' = PutItem(table, ItemOf(item[c]))
    /\ StoreAfterWrite(c, "ok", blobPut[c], "none")
    /\ UNCHANGED bucket

\* dynamoDb.putItem fails.
DynamoPutItemFail(c) ==
    /\ pc[c] = "storing"
    /\ metaPut[c] = "pending"
    /\ StoreAfterWrite(c, "failed", blobPut[c], "DynamoError")
    /\ UNCHANGED <<table, bucket>>

\* The key under which storeItem puts the config of its item.
BlobKeyShortId(it) == it.uniqueSubHash

BlobKey(it) == it.fullHash

\* s3.put lands.
S3PutOk(c) ==
    /\ pc[c] = "storing"
    /\ blobPut[c] = "pending"
    /\ bucket' = S3Put(bucket, BlobKey(item[c]), item[c].config)
    /\ StoreAfterWrite(c, metaPut[c], "ok", "none")
    /\ UNCHANGED table

\* s3.put fails.
S3PutFail(c) ==
    /\ pc[c] = "storing"
    /\ blobPut[c] = "pending"
    /\ StoreAfterWrite(c, metaPut[c], "failed", "S3Error")
    /\ UNCHANGED <<table, bucket>>

(***************************************************************************)
(* expandId                                                                *)
(***************************************************************************)

NotFound == "not present in links table"

ContentMissing == "not present in storage"

\* Buffer.toString on the data of the blob, which s3.put wrote from the
\* config string.
BufferToString(data) == data

\* expandId once getItem has answered with the items got: it throws when
\* there is no item, and goes on to s3.get otherwise.
GoesOn == [NoResult EXCEPT !.op = "expandId", !.status = "pending"]

LinksTableCheckOmitted(got) == GoesOn

LinksTableCheck(got) ==
    IF got = {}
    THEN Threw("expandId", NotFound)
    ELSE GoesOn

\* expandId once s3.get has answered with res: it throws when there is no
\* hit, and returns the link otherwise.
StorageCheckOmitted(attrs, res) ==
    Returned("expandId", <<>>,
             [config |-> BufferToString(res.data), created |-> attrs.creation_date])

StorageCheck(attrs, res) ==
    IF ~res.hit
    THEN Threw("expandId", ContentMissing)
    ELSE Returned("expandId", <<>>,
                  [config |-> BufferToString(res.data), created |-> attrs.creation_date])

\* expandId(id) is called and its getItem is answered.
ExpandGetItem(c, id) ==
    /\ Called(c)
    /\ LET got == GetItem(table, getKeyStruct(id))
           r == LinksTableCheck(got)
       IN  IF r.status = "pending"
           THEN /\ pc' = [pc EXCEPT ![c] = "expanding"]
                /\ attributes' = [attributes EXCEPT ![c] = got]
                /\ UNCHANGED result
           ELSE /\ result' = r
                /\ UNCHANGED <<pc, attributes>>
    /\ UNCHANGED <<table, bucket, item, metaPut, blobPut, promise, returned>>

\* s3.get of expandId is answered. With no item read, attributes.full_hash
\* is the read of a property of undefined: a TypeError.
ExpandS3Get(c) ==
    /\ pc[c] = "expanding"
    /\ result' =
            IF attributes[c] = {}
            THEN Threw("expandId", "TypeError")
            ELSE LET attrs == CHOOSE a \in attributes[c] : TRUE
                 IN  StorageCheck(attrs, S3Get(bucket, attrs.full_hash))
    /\ pc' = [pc EXCEPT ![c] = "idle"]
    /\ attributes' = [attributes EXCEPT ![c] = {}]
    /\ UNCHANGED <<table, bucket, item, metaPut, blobPut, promise, returned, nops>>

(***************************************************************************)
(* incrementViewCount                                                      *)
(***************************************************************************)

\* incrementViewCount once updateItem has settled, with error err or "none":
\* the error is logged and swallowed.
IncrementRethrow(err) ==
    IF err = "none"
    THEN Returned("incrementViewCount", <<>>, NoLink)
    ELSE Threw("incrementViewCount", err)

IncrementSettle(err) ==
    [Returned("incrementViewCount", <<>>, NoLink) EXCEPT !.error = err]

\* updateItem with SET stats.clicks = stats.clicks + :inc on an item.
UpdateClicks(tbl, key) ==
    {IF KeyOf(it) = key THEN [it EXCEPT !.clicks = it.clicks + 1] ELSE it : it \in tbl}

IncrementFrame(c) ==
    /\ Called(c)
    /\ UNCHANGED <<bucket, pc, item, metaPut, blobPut, promise, attributes,
                   returned>>

\* updateItem is applied to the item under the key.
IncrementApplied(c, id) ==
    /\ IncrementFrame(c)
    /\ GetItem(table, getKeyStruct(id)) # {}
    /\ table' = UpdateClicks(table, getKeyStruct(id))
    /\ result' = IncrementSettle("none")

\* updateItem finds no item under the key: stats.clicks is no path of an
\* item, and DynamoDB rejects the update.
IncrementUpserting(c, id) ==
    /\ IncrementFrame(c)
    /\ GetItem(table, getKeyStruct(id)) = {}
    /\ result' = IncrementSettle("none")
    /\ table' = table \cup
            {[prefix |-> getKeyStruct(id).prefix,
              unique_subhash |-> id,
              full_hash |-> <<>>,
              clicks |-> 1,
              creation_ip |-> <<>>,
              creation_date |-> [minute |-> 0, second |-> 0]]}

IncrementMissing(c, id) ==
    /\ IncrementFrame(c)
    /\ GetItem(table, getKeyStruct(id)) = {}
    /\ result' = IncrementSettle("ValidationException")
    /\ UNCHANGED table

\* updateItem fails at the backing store or times out.
IncrementFailed(c, id) ==
    /\ IncrementFrame(c)
    /\ result' = IncrementSettle("DynamoError")
    /\ UNCHANGED table

(***************************************************************************)
(* The specification                                                       *)
(***************************************************************************)

\* The stores that completed, one after the other, before the calls of the
\* behaviour: none, or both.
InitialHashes == <<ZeroHash, OneAt(HashLen)>>

\* The table, the bucket and the ids given out once the stores of the first
\* k of InitialHashes have completed, each with both of its writes landed.
RECURSIVE InitialLinks(_)
InitialLinks(k) ==
    IF k = 0 THEN [table |-> {}, bucket |-> {}, returned |-> {}]
    ELSE LET before == InitialLinks(k - 1)
             h == InitialHashes[k]
             r == findUniqueSubhash(before.table, h)
             it == [prefix |-> r.prefix,
                    uniqueSubHash |-> r.uniqueSubHash,
                    fullHash |-> h,
                    config |-> ConfigOf(h),
                    ip |-> CreationIp(RequestOf(0)),
                    date |-> CreationDate(TimeOf(0))]
         IN  IF r.thrown THEN before
             ELSE IF ~ShouldStore(r)
             THEN [before EXCEPT !.returned = @ \cup {<<h, r.uniqueSubHash>>}]
             ELSE [table |-> PutItem(before.table, ItemOf(it)),
                   bucket |-> S3Put(before.bucket, h, it.config),
                   returned |-> before.returned \cup {<<h, r.uniqueSubHash>>}]

Init ==
    /\ \E k \in {0, Len(InitialHashes)} :
            /\ table = InitialLinks(k).table
            /\ bucket = InitialLinks(k).bucket
            /\ returned = InitialLinks(k).returned
    /\ pc = [c \in Calls |-> "idle"]
    /\ item = [c \in Calls |-> NoItem]
    /\ metaPut = [c \in Calls |-> "none"]
    /\ blobPut = [c \in Calls |-> "none"]
    /\ promise = [c \in Calls |-> "none"]
    /\ attributes = [c \in Calls |-> {}]
    /\ result = NoResult
    /\ nops = 0

\* The store in flight when a behaviour of SpecInFlight begins: call 0,
\* storeItem of this hash, whose findUniqueSubhash was answered from the
\* empty table and whose two writes are issued and not settled.
InFlightHash == OneAt(HashLen)

InFlightItem ==
    LET r == findUniqueSubhash({}, InFlightHash)
    IN  [prefix |-> r.prefix,
         uniqueSubHash |-> r.uniqueSubHash,
         fullHash |-> InFlightHash,
         config |-> ConfigOf(InFlightHash),
         ip |-> CreationIp(RequestOf(0)),
         date |-> CreationDate(TimeOf(0))]

InitInFlight ==
    /\ table = {}
    /\ bucket = {}
    /\ returned = {}
    /\ pc = [c \in Calls |-> IF c = 0 THEN "storing" ELSE "idle"]
    /\ item = [c \in Calls |-> IF c = 0 THEN InFlightItem ELSE NoItem]
    /\ metaPut = [c \in Calls |-> IF c = 0 THEN "pending" ELSE "none"]
    /\ blobPut = [c \in Calls |-> IF c = 0 THEN "pending" ELSE "none"]
    /\ promise = [c \in Calls |-> IF c = 0 THEN "pending" ELSE "none"]
    /\ attributes = [c \in Calls |-> {}]
    /\ result = NoResult
    /\ nops = 0

Next ==
    \E c \in Calls :
        \/ \E h \in Hashes : StoreBegin(c, h)
        \/ DynamoPutItemOk(c)
        \/ DynamoPutItemFail(c)
        \/ S3PutOk(c)
        \/ S3PutFail(c)
        \/ \E id \in Ids : ExpandGetItem(c, id)
        \/ ExpandS3Get(c)
        \/ \E id \in Ids : IncrementApplied(c, id)
        \/ \E id \in Ids : IncrementMissing(c, id)
        \/ \E id \in Ids : IncrementFailed(c, id)

Spec == Init /\ [][Next]_vars

\* The behaviours that begin while a store is in flight.
SpecInFlight == InitInFlight /\ [][Next]_vars

(***************************************************************************)
(* Properties                                                              *)
(***************************************************************************)

\* expandId(id) when both of its reads are answered from tbl and bkt.
ExpandIdOn(tbl, bkt, id) ==
    LET got == GetItem(tbl, getKeyStruct(id))
        r == LinksTableCheck(got)
    IN  IF r.status # "pending" THEN r
        ELSE IF got = {} THEN Threw("expandId", "TypeError")
        ELSE LET attrs == CHOOSE a \in got : TRUE
             IN  StorageCheck(attrs, S3Get(bkt, attrs.full_hash))

\* C1: two contents with different full hashes are never given the same
\* short id by stores, however the stores of the callers interleave.
C1_DistinctShortIds ==
    \A p \in returned, q \in returned : p[1] # q[1] => p[2] # q[2]

\* C2: round trip: once a store of a content has returned the short id s, an
\* expandId(s) succeeds and returns exactly that content.
C2_RoundTrip ==
    \A p \in returned :
        LET r == ExpandIdOn(table, bucket, p[2])
        IN  r.status = "ok" /\ r.link.config = ConfigOf(p[1])

\* C3: idempotent dedupe: once a store of the content with full hash H has
\* returned the short id s, findUniqueSubhash(H) returns uniqueSubHash = s
\* with alreadyPresent = true.
C3_IdempotentDedupe ==
    \A p \in returned :
        LET r == findUniqueSubhash(table, p[1])
        IN  ~r.thrown /\ r.uniqueSubHash = p[2] /\ r.alreadyPresent

\* The hashes findUniqueSubhash is asked about: the hashes stored, and
\* hashes too short to have a candidate.
ProbeHashes ==
    Hashes \cup {Substring(ZeroHash, 0, k) :
                    k \in (MIN_STORED_ID_LENGTH - 1)..(MIN_STORED_ID_LENGTH + 2)}

\* C4: every short id findUniqueSubhash(hash) returns, for any hash and any
\* contents of the table, has at least MIN_STORED_ID_LENGTH characters and
\* fewer than hash; so has every id a store returned.
C4_ShortIdLength ==
    /\ \A h \in ProbeHashes :
          LET r == findUniqueSubhash(table, h)
          IN  ~r.thrown =>
                  /\ Len(r.uniqueSubHash) >= MIN_STORED_ID_LENGTH
                  /\ Len(r.uniqueSubHash) < Len(h)
    /\ \A p \in returned :
          Len(p[2]) >= MIN_STORED_ID_LENGTH /\ Len(p[2]) < Len(p[1])

\* A storeItem has resolved for an id longer than MIN_STORED_ID_LENGTH, and
\* a hash too short has no id.
C4_Witness ==
    /\ result.op = "storeItem"
    /\ result.status = "ok"
    /\ Len(result.id) > MIN_STORED_ID_LENGTH
    /\ findUniqueSubhash(table, Substring(ZeroHash, 0, MIN_STORED_ID_LENGTH)).thrown

\* C5: expandId(id) for an id with no item in the links table fails with the
\* NotFound error and returns no link.
C5_NotFound ==
    [][\A c \in Calls, id \in Ids :
          (/\ ExpandGetItem(c, id)
           /\ ~\E it \in table :
                 /\ it.prefix = Substring(id, 0, PREFIX_LENGTH)
                 /\ it.unique_subhash = id)
          => /\ result' = Threw("expandId", NotFound)
             /\ pc'[c] = "idle"]_vars

\* An expandId has failed with NotFound while the table holds other ids.
C5_Witness ==
    /\ result = Threw("expandId", NotFound)
    /\ table # {}

\* C6: when the item read for the id exists and the bucket holds nothing
\* under its full_hash, expandId fails with the ContentMissing error, which
\* is not the NotFound error, and returns no link.
C6_ContentMissing ==
    /\ ContentMissing # NotFound
    /\ [][\A c \in Calls :
            (/\ ExpandS3Get(c)
             /\ \E a \in attributes[c] : ~\E o \in bucket : o.key = a.full_hash)
            => /\ result' = Threw("expandId", ContentMissing)
               /\ pc'[c] = "idle"]_vars

\* An expandId has failed with ContentMissing: the table holds an item whose
\* blob the bucket lacks.
C6_Witness ==
    /\ result = Threw("expandId", ContentMissing)
    /\ \E it \in table : ~\E o \in bucket : o.key = it.full_hash

\* C7: incrementViewCount completes normally for its caller whatever the
\* outcome of updateItem: no error is propagated.
C7_IncrementNeverThrows ==
    result.op = "incrementViewCount" => result.status = "ok"

\* An incrementViewCount whose updateItem was rejected has completed.
C7_Witness ==
    /\ result.op = "incrementViewCount"
    /\ result.error = "ValidationException"

\* C8: storeItem returns the item only when both the putItem and the s3.put
\* have succeeded, and when either write fails it throws the error of that
\* write (of the first to fail, when both do) and never returns the item.
C8_StoreItemOutcome ==
    [][\A c \in Calls :
          /\ (DynamoPutItemFail(c) /\ promise[c] = "pending")
                => result' = Threw("storeItem", "DynamoError")
          /\ (S3PutFail(c) /\ promise[c] = "pending")
                => result' = Threw("storeItem", "S3Error")
          /\ (DynamoPutItemOk(c) /\ promise[c] = "pending")
                => IF blobPut[c] = "ok"
                   THEN result' = Returned("storeItem", item[c].uniqueSubHash, NoLink)
                   ELSE result' = result
          /\ (S3PutOk(c) /\ promise[c] = "pending")
                => IF metaPut[c] = "ok"
                   THEN result' = Returned("storeItem", item[c].uniqueSubHash, NoLink)
                   ELSE result' = result
          /\ ((DynamoPutItemOk(c) \/ DynamoPutItemFail(c) \/ S3PutOk(c) \/ S3PutFail(c))
                /\ promise[c] \in {"DynamoError", "S3Error"})
                => result' = result /\ returned' = returned]_vars

\* A storeItem has thrown the error of its s3.put although its putItem had
\* landed: the item is in the table, the blob is not in the bucket.
C8_Witness ==
    /\ result = Threw("storeItem", "S3Error")
    /\ \E it \in table : ~\E o \in bucket : o.key = it.full_hash
    /\ \A c \in Calls : pc[c] = "idle"

\* C9: when two storeItems have resolved the same free short id for different
\* contents and both write, the item under the id holds the full hash of
\* the putItem that landed last, and every blob stays stored under its own
\* full hash. The putItem of call c is the later one of a race when the
\* table holds another content under the id c found free.
C9_LastWriteWins ==
    /\ [](\A o \in bucket : o.data = ConfigOf(o.key))
    /\ [][\A c \in Calls :
            (/\ DynamoPutItemOk(c)
             /\ \E it \in table :
                   /\ KeyOf(it) = getKeyStruct(item[c].uniqueSubHash)
                   /\ it.full_hash # item[c].fullHash)
            => /\ GetItem(table', getKeyStruct(item[c].uniqueSubHash)) = {ItemOf(item[c])}
               /\ bucket' = bucket]_vars

\* Both racing stores have returned the same id: the table holds one item
\* under it, with the full hash of one of them, and the bucket both blobs.
C9_Witness ==
    \E p \in returned, q \in returned :
        /\ p[1] # q[1]
        /\ p[2] = q[2]
        /\ GetItem(table, getKeyStruct(p[2])) # {}
        /\ \A it \in GetItem(table, getKeyStruct(p[2])) : it.full_hash = p[1]
        /\ \A it \in table : it.full_hash # q[1]
        /\ S3Get(bucket, p[1]) = [hit |-> TRUE, data |-> ConfigOf(p[1])]
        /\ S3Get(bucket, q[1]) = [hit |-> TRUE, data |-> ConfigOf(q[1])]

\* C10: a store whose findUniqueSubhash reported alreadyPresent = true issues
\* neither write: the items of the table and the blobs stay as they are.
C10_DedupeWritesNothing ==
    [][\A c \in Calls, h \in Hashes :
          (/\ StoreBegin(c, h)
           /\ ~findUniqueSubhash(table, h).thrown
           /\ findUniqueSubhash(table, h).alreadyPresent)
          => /\ table' = table
             /\ bucket' = bucket
             /\ pc'[c] = "idle"
             /\ metaPut'[c] = "none"
             /\ blobPut'[c] = "none"]_vars

\* A store has returned an id already present whose item has been viewed.
C10_Witness ==
    /\ result.op = "findUniqueSubhash"
    /\ result.status = "ok"
    /\ \E it \in table : it.unique_subhash = result.id /\ it.clicks > 0

\* The client address part of a creation_ip: what precedes its first comma.
ClientPart(ip) ==
    IF IndexOf(ip, ",") > 0 THEN Substring(ip, 0, IndexOf(ip, ",")) ELSE ip

\* C11: every item storeItem wrote carries an anonymized creator IP: the
\* client address part of creation_ip is the output of anonymizeIp on the
\* address of a client, and never the raw address, whether the request had
\* no X-Forwarded-For header, a single address in it, or a list.
C11_AnonymizedCreationIp ==
    \A it \in table :
        /\ \E c \in 0..MaxOps : ClientPart(it.creation_ip) = anonymizeIp(ClientOf(c))
        /\ \A c \in 0..MaxOps : ClientPart(it.creation_ip) # ClientOf(c)

\* The items of tbl under the short id cand, in the partition of cand.
Under(tbl, cand) ==
    {it \in tbl : it.prefix = Substring(cand, 0, PREFIX_LENGTH) /\ it.unique_subhash = cand}

\* The prefix of hash of length i is free in tbl, or is the id of hash.
Resolves(tbl, hash, i) ==
    \/ Under(tbl, Substring(hash, 0, i)) = {}
    \/ \E it \in Under(tbl, Substring(hash, 0, i)) : it.full_hash = hash

\* C12: what findUniqueSubhash(hash) returns is the prefix of hash of the
\* smallest length i >= MIN_STORED_ID_LENGTH that is absent from the short
\* ids of the partition (alreadyPresent = false) or present with full hash
\* hash (alreadyPresent = true); a prefix present with another full hash is
\* never returned, so a hash colliding at MIN_STORED_ID_LENGTH with the id
\* of another content gets a longer id.
C12_MinimalPrefix ==
    [](\A h \in Hashes :
        LET r == findUniqueSubhash(table, h)
            i == Len(r.uniqueSubHash)
        IN  ~r.thrown =>
              /\ r.uniqueSubHash = Substring(h, 0, i)
              /\ i >= MIN_STORED_ID_LENGTH
              /\ Resolves(table, h, i)
              /\ \A j \in MIN_STORED_ID_LENGTH..(i - 1) : ~Resolves(table, h, j)
              /\ r.alreadyPresent = (Under(table, r.uniqueSubHash) # {})
              /\ \A it \in Under(table, r.uniqueSubHash) : it.full_hash = h
              /\ (\E it \in Under(table, Substring(h, 0, MIN_STORED_ID_LENGTH)) :
                      it.full_hash # h) => i > MIN_STORED_ID_LENGTH)

\* A store has been answered with the id of its content, which is longer
\* than MIN_STORED_ID_LENGTH because the shorter prefix is the id of
\* another content.
C12_Witness ==
    /\ result.op = "findUniqueSubhash"
    /\ result.status = "ok"
    /\ Len(result.id) > MIN_STORED_ID_LENGTH
    /\ \E it \in Under(table, Substring(result.id, 0, MIN_STORED_ID_LENGTH)) :
          it.full_hash \notin {o.full_hash : o \in Under(table, result.id)}

\* C13: findUniqueSubhash(hash) tries every candidate length from
\* MIN_STORED_ID_LENGTH through Len(hash) - 1: a store fails with
\* ResolutionExhausted only when the prefix of each of those lengths is
\* present with another full hash, and otherwise resolves the first of them
\* that is free or its own, the one of length Len(hash) - 1 included.
C13_ExhaustionOnlyWhenAllTaken ==
    [][\A c \in Calls, h \in Hashes :
          StoreBegin(c, h) =>
              LET tried == MIN_STORED_ID_LENGTH..(Len(h) - 1)
                  r == findUniqueSubhash(table, h)
              IN  /\ r.thrown <=> \A i \in tried : ~Resolves(table, h, i)
                  /\ (result' = Threw("findUniqueSubhash", ResolutionExhausted))
                        <=> \A i \in tried : ~Resolves(table, h, i)]_vars

\* C14: for every result of findUniqueSubhash(hash), uniqueSubHash is a
\* prefix of hash and prefix is the first PREFIX_LENGTH characters of
\* uniqueSubHash, so getKeyStruct(uniqueSubHash), the key of expandId and
\* incrementViewCount, is the key of the item storeItem writes for the
\* result: every item written lies under the key of its id.
C14_KeyConsistency ==
    /\ MIN_STORED_ID_LENGTH >= PREFIX_LENGTH
    /\ [](\A h \in Hashes :
            LET r == findUniqueSubhash(table, h)
            IN  ~r.thrown =>
                  /\ r.uniqueSubHash = Substring(h, 0, Len(r.uniqueSubHash))
                  /\ r.prefix = Substring(r.uniqueSubHash, 0, PREFIX_LENGTH)
                  /\ getKeyStruct(r.uniqueSubHash) =
                        [prefix |-> r.prefix, unique_subhash |-> r.uniqueSubHash])
    /\ [](\A c \in Calls :
            pc[c] = "storing" =>
                KeyOf(ItemOf(item[c])) = getKeyStruct(item[c].uniqueSubHash))
    /\ [](\A it \in table : GetItem(table, getKeyStruct(it.unique_subhash)) = {it})

\* incrementViewCount has counted a view of an item that a storeItem wrote
\* under an id longer than MIN_STORED_ID_LENGTH.
C14_Witness ==
    /\ result.op = "incrementViewCount"
    /\ result.error = "none"
    /\ \E it \in table : it.clicks > 0 /\ Len(it.unique_subhash) > MIN_STORED_ID_LENGTH

\* C15: once an item exists under a key, its stats.clicks is changed only
\* by incrementViewCount, each time by exactly +1: no step of a store
\* changes the clicks of an existing item, and clicks never decreases.
C15_ClicksOnlyIncremented ==
    [][\A it \in table :
          \A after \in GetItem(table', KeyOf(it)) :
              \/ after.clicks = it.clicks
              \/ /\ after.clicks = it.clicks + 1
                 /\ \E c \in Calls :
                       IncrementApplied(c, it.unique_subhash)]_vars

\* C16: in every reachable table, however the stores interleave, at most
\* one item has a given full_hash: no two short ids reference the same
\* full hash.
C16_OneIdPerFullHash ==
    \A a \in table, b \in table : a.full_hash = b.full_hash => a = b

\* C17, as claimed: the blob of a full hash is written once: after the
\* first s3.put under the key H has landed, no operation writes the key H
\* again or changes the bytes stored under it.
C17_BlobWrittenOnce ==
    [][/\ \A o \in bucket : S3Get(bucket', o.key) = [hit |-> TRUE, data |-> o.data]
       /\ \A c \in Calls :
             S3PutOk(c) => ~\E o \in bucket : o.key = item[c].fullHash]_vars

\* C17, amended: once an s3.put under the key H has landed, the bytes
\* stored under H never change and are never removed; the bucket is written
\* by the s3.put of a storeItem only (never by expandId or
\* incrementViewCount), which may put a key that is already there, with
\* the bytes it holds.
C17_BlobImmutable ==
    [][/\ \A o \in bucket : S3Get(bucket', o.key) = [hit |-> TRUE, data |-> o.data]
       /\ bucket' # bucket =>
             \E c \in Calls :
                 /\ S3PutOk(c)
                 /\ bucket' = bucket \cup {[key |-> item[c].fullHash, data |-> item[c].config]}
       /\ \A c \in Calls :
             (S3PutOk(c) /\ \E o \in bucket : o.key = item[c].fullHash)
                 => bucket' = bucket]_vars

\* The s3.put of two storeItems of the same content have both landed: the
\* key was put twice, and holds the config.
C17_Witness ==
    \E c \in Calls, d \in Calls :
        /\ c # d
        /\ pc[c] = "storing" /\ pc[d] = "storing"
        /\ blobPut[c] = "ok" /\ blobPut[d] = "ok"
        /\ item[c].fullHash = item[d].fullHash
        /\ S3Get(bucket, item[c].fullHash) = [hit |-> TRUE, data |-> item[c].config]

\* C18: storeItem performs no rollback: when exactly one of its two writes
\* fails, storeItem fails, the failure writes nothing, and the write that
\* succeeded, before or after the failure, stays in its store; no step
\* removes an item or a blob.
C18_NoRollback ==
    [][/\ \A it \in table : GetItem(table', KeyOf(it)) # {}
       /\ \A o \in bucket : S3Get(bucket', o.key).hit
       /\ \A c \in Calls :
             /\ (S3PutFail(c) /\ metaPut[c] = "ok")
                   => /\ result' = Threw("storeItem", "S3Error")
                      /\ table' = table /\ bucket' = bucket
                      /\ pc'[c] = "idle"
             /\ (DynamoPutItemFail(c) /\ blobPut[c] = "ok")
                   => /\ result' = Threw("storeItem", "DynamoError")
                      /\ table' = table /\ bucket' = bucket
                      /\ pc'[c] = "idle"
             /\ (DynamoPutItemOk(c) /\ blobPut[c] = "failed")
                   => /\ ItemOf(item[c]) \in table'
                      /\ result' = result /\ returned' = returned
                      /\ pc'[c] = "idle"
             /\ (S3PutOk(c) /\ metaPut[c] = "failed")
                   => /\ S3Get(bucket', item[c].fullHash) =
                            [hit |-> TRUE, data |-> item[c].config]
                      /\ result' = result /\ returned' = returned
                      /\ pc'[c] = "idle"]_vars

\* Two storeItems have failed, each with one write landed, and nothing is
\* in flight: the table holds an item whose full_hash has no blob, and the
\* bucket a blob that no item references.
C18_Witness ==
    /\ result.op = "storeItem"
    /\ result.status = "error"
    /\ \A c \in Calls : pc[c] = "idle"
    /\ \E it \in table : ~S3Get(bucket, it.full_hash).hit
    /\ \E o \in bucket : \A it \in table : it.full_hash # o.key

\* C19: no gaps: in every reachable table, however the stores interleave
\* and whichever of their writes fail, when an item lies under a short id
\* of length k > MIN_STORED_ID_LENGTH with full hash H, the partition also
\* holds an item under the prefix of H of every length from
\* MIN_STORED_ID_LENGTH to k - 1.
C19_NoGaps ==
    \A it \in table :
        \A j \in MIN_STORED_ID_LENGTH..(Len(it.unique_subhash) - 1) :
            Under(table, Substring(it.full_hash, 0, j)) # {}

\* A store of the behaviour has written an item under an id longer than
\* MIN_STORED_ID_LENGTH, the shorter prefix being the id of another content.
C19_Witness ==
    \E it \in table :
        /\ it.creation_date.minute > 0
        /\ Len(it.unique_subhash) > MIN_STORED_ID_LENGTH
        /\ \E o \in Under(table, Substring(it.full_hash, 0, MIN_STORED_ID_LENGTH)) :
              o.full_hash # it.full_hash

\* C20: incrementViewCount(id) on an id with no item leaves the table and
\* the bucket as they are: it creates no item, so the keys that
\* findUniqueSubhash and expandId see are changed by the putItem of a
\* storeItem only.
C20_IncrementCreatesNothing ==
    [][/\ \A c \in Calls, id \in Ids :
             (/\ IncrementApplied(c, id) \/ IncrementMissing(c, id) \/ IncrementFailed(c, id)
              /\ GetItem(table, getKeyStruct(id)) = {})
             => table' = table /\ bucket' = bucket
       /\ {KeyOf(it) : it \in table'} # {KeyOf(it) : it \in table}
             => \E c \in Calls : DynamoPutItemOk(c)]_vars

\* An incrementViewCount of an id with no item has completed, its update
\* rejected, while the table holds items under other ids.
C20_Witness ==
    /\ result.op = "incrementViewCount"
    /\ result.error = "ValidationException"
    /\ table # {}
    /\ \E id \in Ids : GetItem(table, getKeyStruct(id)) = {}

====
